---- MODULE Spec2Model ----
(***************************************************************************)
(* Model of src/main.go: the step that generates a Cordova build.json.     *)
(*                                                                         *)
(* src/main.go holds two revisions of the program, one after the other:    *)
(*   revision 1, lines   1-229: inputs read with os.Getenv, printed by     *)
(*               ConfigsModel.print, checked by ConfigsModel.validate;     *)
(*   revision 2, lines 231-431: inputs read by stepconf.Parse, printed by  *)
(*               stepconf.Print, passwords masked in the logged document.  *)
(* A run executes one of the two mains; rev says which.                    *)
(*                                                                         *)
(* Strings are sequences of tokens, so that prefix tests, concatenation    *)
(* and substring containment are computed, not assumed: "" is <<>>,        *)
(* "file:///tmp/a.jks" is <<"file://", "/", "tmp", "/", "a.jks">>.         *)
(***************************************************************************)
EXTENDS Integers, Sequences, FiniteSets, TLC

VARIABLES
    rev,               \* which main() of src/main.go runs: 1 or 2
    configs,           \* ConfigsModel, read from the environment
    pc,                \* position in main()
    exitCode,          \* -1 while running, else the process's exit status
    failure,           \* format string of the fail() call that ended the run, "" if none
    log,               \* the lines written to the log output, in order
    tmpDir,            \* TRUE once NormalizedOSTempDirPath has created the scratch dir
    buildConfig,       \* BuildConfiguration: [Android: map, IOS: map]
    buildConfigBytes,  \* result of json.MarshalIndent(buildConfig, ...)
    fs,                \* files written by the run: path -> bytes
    netRequests,       \* number of http.Get calls performed
    downloads,         \* what happened in each download() call, in order
    published          \* envman handoffs performed: sequence of [key, value]

vars == <<rev, configs, pc, exitCode, failure, log, tmpDir, buildConfig,
          buildConfigBytes, fs, netRequests, downloads, published>>

-----------------------------------------------------------------------------
(* String helpers (package strings, path, filepath)                        *)

Empty == <<>>

HasPrefix(s, prefix) ==
    /\ Len(s) >= Len(prefix)
    /\ SubSeq(s, 1, Len(prefix)) = prefix

TrimPrefix(s, prefix) ==
    IF HasPrefix(s, prefix) THEN SubSeq(s, Len(prefix) + 1, Len(s)) ELSE s

FileScheme == <<"file://">>
Mask == <<"*****">>

\* path.Join / filepath.Join of a directory and one file name
Join(dir, name) == dir \o <<"/", name>>

\* the directory NormalizedOSTempDirPath("__bitrise-cordova-build-config__") returns
TmpDirPath == <<"/", "tmp", "/", "__bitrise-cordova-build-config__">>

\* the process's working directory, used by filepath.Abs for relative paths
Cwd == <<"/", "cwd">>

\* pathutil.AbsPath(rawPth): an error for the empty path, and for a relative
\* path when the working directory cannot be determined (cwdOK = FALSE)
AbsPath(pth, cwdOK) ==
    IF pth = Empty THEN [err |-> TRUE, pth |-> Empty]
    ELSE IF pth[1] = "/" THEN [err |-> FALSE, pth |-> pth]
    ELSE IF cwdOK THEN [err |-> FALSE, pth |-> Cwd \o <<"/">> \o pth]
    ELSE [err |-> TRUE, pth |-> Empty]

-----------------------------------------------------------------------------
(* Inputs                                                                  *)

ConfigurationOptions == {<<"release">>, <<"debug">>}
PackageTypeOptions ==
    {<<"none">>, <<"development">>, <<"enterprise">>, <<"ad-hoc">>, <<"app-store">>}

Configurations == ConfigurationOptions \cup {Empty, <<"staging">>}
PackageTypes == PackageTypeOptions \cup {Empty, <<"bogus">>}
KeystoreURLs ==
    { Empty,
      <<"file://", "/", "tmp", "/", "a.jks">>,
      <<"file://", "rel", "/", "a.jks">>,
      <<"file://">>,
      <<"https://", "example.com", "/", "a.jks">> }
KeystorePasswords == {Empty, <<"st0re-s3cret">>}
PrivateKeyPasswords == {Empty, <<"k3y-s3cret">>}
KeystoreAliases == {Empty, <<"myalias">>}
CodeSignIdentities == {Empty, <<"iPhone Developer">>}
DevelopmentTeams == {<<"TEAM1">>}
ProvisioningProfiles == {<<"profile-uuid">>}

ConfigsModel ==
    [ Configuration : Configurations,
      DevelopmentTeam : DevelopmentTeams,
      CodeSignIdentity : CodeSignIdentities,
      ProvisioningProfile : ProvisioningProfiles,
      PackageType : PackageTypes,
      KeystoreURL : KeystoreURLs,
      KeystorePassword : KeystorePasswords,
      KeystoreAlias : KeystoreAliases,
      PrivateKeyPassword : PrivateKeyPasswords ]

\* input.ValidateWithOptions(value, options...): nil iff value is non-empty
\* and one of the options
ValidateWithOptions(value, options) == value # Empty /\ value \in options

\* ConfigsModel.validate (revision 1): "" when valid, else the field at fault
validate(c) ==
    IF ~ValidateWithOptions(c.Configuration, ConfigurationOptions)
    THEN "Configuration"
    ELSE IF ~ValidateWithOptions(c.PackageType, PackageTypeOptions)
    THEN "PackageType"
    ELSE ""

\* stepconf.Parse (revision 2): the struct tags carry only `required` on
\* configuration; no field has an opt[...] constraint
Parse(c) == IF c.Configuration = Empty THEN "configuration" ELSE ""

\* stepconf.Secret.String(): the mask unless empty
SecretString(s) == IF s = Empty THEN Empty ELSE Mask

\* ConfigsModel.print (revision 1): every field printed as it is
ConfigsPrintLines(c) ==
    << <<"- Configuration: ">> \o c.Configuration,
       <<"- DevelopmentTeam: ">> \o c.DevelopmentTeam,
       <<"- CodeSignIdentity: ">> \o c.CodeSignIdentity,
       <<"- ProvisioningProfile: ">> \o c.ProvisioningProfile,
       <<"- PackageType: ">> \o c.PackageType,
       <<"- KeystoreURL: ">> \o c.KeystoreURL,
       <<"- KeystorePassword: ">> \o c.KeystorePassword,
       <<"- KeystoreAlias: ">> \o c.KeystoreAlias,
       <<"- PrivateKeyPassword: ">> \o c.PrivateKeyPassword >>

\* stepconf.Print(configs) (revision 2): Secret fields print through String()
StepconfPrintLines(c) ==
    << <<"- Configuration: ">> \o c.Configuration,
       <<"- DevelopmentTeam: ">> \o c.DevelopmentTeam,
       <<"- CodeSignIdentity: ">> \o c.CodeSignIdentity,
       <<"- ProvisioningProfile: ">> \o c.ProvisioningProfile,
       <<"- PackageType: ">> \o c.PackageType,
       <<"- KeystoreURL: ">> \o c.KeystoreURL,
       <<"- KeystorePassword: ">> \o SecretString(c.KeystorePassword),
       <<"- KeystoreAlias: ">> \o c.KeystoreAlias,
       <<"- PrivateKeyPassword: ">> \o SecretString(c.PrivateKeyPassword) >>

-----------------------------------------------------------------------------
(* The document and its serialization                                      *)

NilMap == [k \in {} |-> Empty]

EmptyBuildConfiguration == [Android |-> NilMap, IOS |-> NilMap]

AndroidBuildConfigurationItem(keystorePath, c) ==
    [ Keystore |-> keystorePath,
      StorePassword |-> c.KeystorePassword,
      Alias |-> c.KeystoreAlias,
      Password |-> c.PrivateKeyPassword ]

IOSBuildConfigurationItem(c) ==
    [ CodeSignIdentity |-> c.CodeSignIdentity,
      ProvisioningProfile |-> c.ProvisioningProfile,
      DevelopmentTeam |-> c.DevelopmentTeam,
      PackageType |-> c.PackageType ]

\* the key is hard-coded instead of taken from the configuration
SingleEntryMap_FixedKey(key, item) == [k \in {<<"release">>} |-> item]

\* map[string]...{configs.Configuration: item}
SingleEntryMap(key, item) == [k \in {key} |-> item]

Quote(s) == <<"\"">> \o s \o <<"\"">>

\* a string field tagged `omitempty`
JSONField(name, v) == IF v = Empty THEN <<>> ELSE <<name, ":">> \o Quote(v)

MarshalAndroidItem(it) ==
    <<"{">> \o JSONField("keystore", it.Keystore)
            \o JSONField("storePassword", it.StorePassword)
            \o JSONField("alias", it.Alias)
            \o JSONField("password", it.Password) \o <<"}">>

MarshalIOSItem(it) ==
    <<"{">> \o JSONField("codeSignIdentity", it.CodeSignIdentity)
            \o JSONField("provisioningProfile", it.ProvisioningProfile)
            \o JSONField("developmentTeam", it.DevelopmentTeam)
            \o JSONField("packageType", it.PackageType) \o <<"}">>

RECURSIVE MarshalAndroidEntries(_, _)
MarshalAndroidEntries(m, keys) ==
    IF keys = {} THEN <<>>
    ELSE LET k == CHOOSE x \in keys : TRUE
         IN  Quote(k) \o <<":">> \o MarshalAndroidItem(m[k])
                \o MarshalAndroidEntries(m, keys \ {k})

RECURSIVE MarshalIOSEntries(_, _)
MarshalIOSEntries(m, keys) ==
    IF keys = {} THEN <<>>
    ELSE LET k == CHOOSE x \in keys : TRUE
         IN  Quote(k) \o <<":">> \o MarshalIOSItem(m[k])
                \o MarshalIOSEntries(m, keys \ {k})

\* json.MarshalIndent(buildConfig, "", "  "): a map tagged `omitempty` is
\* left out when it has no entry
MarshalIndent(doc) ==
    <<"{">>
    \o (IF DOMAIN doc.Android = {} THEN <<>>
        ELSE <<"android", ":", "{">>
                \o MarshalAndroidEntries(doc.Android, DOMAIN doc.Android) \o <<"}">>)
    \o (IF DOMAIN doc.IOS = {} THEN <<>>
        ELSE <<"ios", ":", "{">>
                \o MarshalIOSEntries(doc.IOS, DOMAIN doc.IOS) \o <<"}">>)
    \o <<"}">>

\* revision 2, lines 403-408: the two password fields masked when non-empty
Redact(config) ==
    [config EXCEPT !.Password = IF @ # Empty THEN Mask ELSE @,
                   !.StorePassword = IF @ # Empty THEN Mask ELSE @]

-----------------------------------------------------------------------------
(* Initial state                                                           *)

Init ==
    /\ rev \in {1, 2}
    /\ configs \in ConfigsModel
    /\ pc = "start"
    /\ exitCode = -1
    /\ failure = ""
    /\ log = <<>>
    /\ tmpDir = FALSE
    /\ buildConfig = EmptyBuildConfiguration
    /\ buildConfigBytes = <<>>
    /\ fs = NilMap
    /\ netRequests = 0
    /\ downloads = <<>>
    /\ published = <<>>

\* fail(format, v...): log the error line, os.Exit(1)
Fail(format, detail, lines) ==
    /\ log' = log \o lines \o << <<format>> \o detail >>
    /\ failure' = format
    /\ exitCode' = 1
    /\ pc' = "exited"


-----------------------------------------------------------------------------
(* Files of the scratch directory and the keystore download                *)

WriteFile(files, pth, bytes) ==
    [n \in DOMAIN files \cup {pth} |-> IF n = pth THEN bytes ELSE files[n]]

\* the longest prefix a write that fails midway is taken to leave behind
MaxShortWrite == 2

Min(a, b) == IF a < b THEN a ELSE b

\* what a write that fails after n tokens leaves in the file
ShortWrite(bytes, n) == SubSeq(bytes, 1, Min(n, Len(bytes)))

\* what the environment may do during download(): whether os.Create
\* succeeds, how http.Get ends, whether io.Copy writes the whole body and,
\* if not, how much of it
DownloadOutcomes ==
    [create : BOOLEAN, get : {"neterr", "200", "404"}, copy : BOOLEAN,
     n : 0..MaxShortWrite]

ResponseBody(status) ==
    IF status = "200" THEN <<"JKS", "BYTES">> ELSE <<"404", "Not Found">>

\* download(url, pth): the error of os.Create is dropped; http.Get returns
\* an error only when the request itself fails, the response status is never
\* looked at; io.Copy fails on a file that was not created or on a short write
download(files, pth, o) ==
    LET created == IF o.create THEN WriteFile(files, pth, <<>>) ELSE files
        body == ResponseBody(o.get)
    IN  IF o.get = "neterr" THEN [err |-> TRUE, files |-> created]
        ELSE IF ~o.create THEN [err |-> TRUE, files |-> created]
        ELSE IF o.copy THEN [err |-> FALSE, files |-> WriteFile(created, pth, body)]
        ELSE [err |-> TRUE, files |-> WriteFile(created, pth, ShortWrite(body, o.n))]

\* fileutil.WriteBytesToFile(pth, bytes): written, not written at all, or
\* cut short with an error
WriteOutcomes == [kind : {"ok", "fail", "partial"}, n : 0..MaxShortWrite]

\* the error is dropped: the caller always sees success
WriteBytesToFile_ErrorDropped(files, pth, bytes, w) ==
    IF w.kind = "ok" THEN [err |-> FALSE, files |-> WriteFile(files, pth, bytes)]
    ELSE IF w.kind = "partial"
    THEN [err |-> FALSE, files |-> WriteFile(files, pth, ShortWrite(bytes, w.n))]
    ELSE [err |-> FALSE, files |-> files]

WriteBytesToFile(files, pth, bytes, w) ==
    IF w.kind = "ok" THEN [err |-> FALSE, files |-> WriteFile(files, pth, bytes)]
    ELSE IF w.kind = "partial"
    THEN [err |-> TRUE, files |-> WriteFile(files, pth, ShortWrite(bytes, w.n))]
    ELSE [err |-> TRUE, files |-> files]

-----------------------------------------------------------------------------
(* main()                                                                  *)

\* revision 1: createConfigsModelFromEnvs, print, validate (lines 136-143)
\* revision 2: stepconf.Parse, stepconf.Print (lines 321-325)
InputError(r, c) == IF r = 1 THEN validate(c) ELSE Parse(c)

ReadConfigs ==
    /\ pc = "start"
    /\ IF rev = 1
       THEN IF InputError(rev, configs) # ""
            THEN Fail("Issue with input: %s",
                      <<InputError(rev, configs), ": invalid parameter">>,
                      ConfigsPrintLines(configs))
            ELSE /\ log' = log \o ConfigsPrintLines(configs)
                 /\ pc' = "tmpdir"
                 /\ UNCHANGED <<failure, exitCode>>
       ELSE IF InputError(rev, configs) # ""
            THEN Fail("Couldn't create config: %v",
                      <<InputError(rev, configs), ": required variable is not present">>,
                      <<>>)
            ELSE /\ log' = log \o StepconfPrintLines(configs)
                 /\ pc' = "tmpdir"
                 /\ UNCHANGED <<failure, exitCode>>
    /\ UNCHANGED <<rev, configs, tmpDir, buildConfig, buildConfigBytes, fs,
                   netRequests, downloads, published>>

\* pathutil.NormalizedOSTempDirPath (lines 147-150, 329-332)
CreateTmpDir ==
    /\ pc = "tmpdir"
    /\ \E ok \in BOOLEAN :
         IF ok
         THEN /\ tmpDir' = TRUE
              /\ pc' = "android"
              /\ UNCHANGED <<failure, exitCode, log>>
         ELSE /\ Fail("Failed to create tmp dir, error: %s", <<"mkdir failed">>, <<>>)
              /\ UNCHANGED tmpDir
    /\ UNCHANGED <<rev, configs, buildConfig, buildConfigBytes, fs,
                   netRequests, downloads, published>>

\* path.Join(tmpDir, "keystore.jks") (lines 168, 351)
KeystoreJksPth == Join(TmpDirPath, "keystore.jks")

\* the prefix test asks for "file:///", so only absolute local paths pass
IsLocalFile_ThreeSlashes(url) == HasPrefix(url, <<"file://", "/">>)

\* whether the keystore reference names a local file (lines 158, 341)
IsLocalFile(url) == HasPrefix(url, FileScheme)

\* Android Build Config (lines 152-184, 336-367)
AndroidBuildConfig ==
    /\ pc = "android"
    /\ IF configs.KeystoreURL = Empty
       THEN /\ pc' = "ios"
            /\ UNCHANGED <<failure, exitCode, log, buildConfig, fs, netRequests,
                           downloads>>
       ELSE IF IsLocalFile(configs.KeystoreURL)
       THEN \E cwdOK \in BOOLEAN :
              LET rawPth == TrimPrefix(configs.KeystoreURL, FileScheme)
                  abs == AbsPath(rawPth, cwdOK)
              IN  IF abs.err
                  THEN /\ Fail("Failed to expand path (%s), error: %s", rawPth,
                               << <<"Adding android build config">> >>)
                       /\ UNCHANGED <<buildConfig, fs, netRequests, downloads>>
                  ELSE /\ buildConfig' =
                            [buildConfig EXCEPT !.Android =
                               SingleEntryMap(configs.Configuration,
                                   AndroidBuildConfigurationItem(abs.pth, configs))]
                       /\ log' = Append(log, <<"Adding android build config">>)
                       /\ pc' = "ios"
                       /\ UNCHANGED <<failure, exitCode, fs, netRequests, downloads>>
       ELSE \E o \in DownloadOutcomes :
              LET keystorePath == KeystoreJksPth
                  d == download(fs, keystorePath, o)
                  lines == << <<"Adding android build config">>, <<"download keystore">> >>
              IN  /\ fs' = d.files
                  /\ netRequests' = netRequests + 1
                  /\ downloads' = Append(downloads, o)
                  /\ IF d.err
                     THEN /\ Fail("Failed to download keystore, error: %s",
                                  <<"Get ">> \o configs.KeystoreURL, lines)
                          /\ UNCHANGED buildConfig
                     ELSE /\ buildConfig' =
                               [buildConfig EXCEPT !.Android =
                                  SingleEntryMap(configs.Configuration,
                                      AndroidBuildConfigurationItem(keystorePath, configs))]
                          /\ log' = log \o lines
                          /\ pc' = "ios"
                          /\ UNCHANGED <<failure, exitCode>>
    /\ UNCHANGED <<rev, configs, tmpDir, buildConfigBytes, published>>

\* the test is for an empty package type instead of "none"
WantsIOS_TestsEmpty(c) == c.PackageType # Empty

\* whether an iOS section is asked for (lines 187, 370)
WantsIOS(c) == c.PackageType # <<"none">>

\* iOS Build Config (lines 186-201, 369-383)
IOSBuildConfig ==
    /\ pc = "ios"
    /\ IF WantsIOS(configs)
       THEN /\ buildConfig' =
                 [buildConfig EXCEPT !.IOS =
                    SingleEntryMap(configs.Configuration,
                                   IOSBuildConfigurationItem(configs))]
            /\ log' = Append(log, <<"Adding ios build config">>)
       ELSE UNCHANGED <<buildConfig, log>>
    /\ pc' = "check"
    /\ UNCHANGED <<rev, configs, exitCode, failure, tmpDir, buildConfigBytes,
                   fs, netRequests, downloads, published>>

\* len(buildConfig.Android) == 0 && len(buildConfig.IOS) == 0
NothingToDo(doc) == DOMAIN doc.Android = {} /\ DOMAIN doc.IOS = {}

\* lines 203-206, 385-388: warn and os.Exit(0)
NothingToGenerate ==
    /\ pc = "check"
    /\ NothingToDo(buildConfig)
    /\ log' = Append(log,
          <<"No ios nor android build config parameters specified, nothing to generate...">>)
    /\ exitCode' = 0
    /\ pc' = "exited"
    /\ UNCHANGED <<rev, configs, failure, tmpDir, buildConfig, buildConfigBytes,
                   fs, netRequests, downloads, published>>

\* revision 2, lines 399-416: the document as changed for the log line; the
\* Android entry of the shared map is overwritten by its masked copy
RedactedDocument(doc, key) ==
    IF key \in DOMAIN doc.Android
    THEN [doc EXCEPT !.Android[key] = Redact(doc.Android[key])]
    ELSE doc

\* the document left in memory after the display step
DisplayedDocument(r, doc, key) == IF r = 1 THEN doc ELSE RedactedDocument(doc, key)

\* the bytes logged under "content:" (line 218; lines 400-419)
PrintableConfigBytes(r, doc, key, bytes) ==
    IF r = 1 THEN bytes
    ELSE IF key \in DOMAIN doc.Android
    THEN MarshalIndent(RedactedDocument(doc, key))
    ELSE bytes

\* Generating build.json: marshal and display (lines 208-218, 390-420)
GenerateConfigFile ==
    /\ pc = "check"
    /\ ~NothingToDo(buildConfig)
    /\ buildConfigBytes' = MarshalIndent(buildConfig)
    /\ buildConfig' = DisplayedDocument(rev, buildConfig, configs.Configuration)
    /\ log' = log \o << <<"Generating config file">>, <<"content:">>,
                        PrintableConfigBytes(rev, buildConfig, configs.Configuration,
                                             MarshalIndent(buildConfig)) >>
    /\ pc' = "write"
    /\ UNCHANGED <<rev, configs, exitCode, failure, tmpDir, fs, netRequests,
                   downloads, published>>

\* the file gets another name
BuildConfigPth_OtherName == Join(TmpDirPath, "config.json")

\* buildConfigPth: filepath.Join(tmpDir, "build.json") (lines 220, 422)
BuildConfigPth == Join(TmpDirPath, "build.json")

\* the document is marshalled again at the time of the write
BytesToPersist_Remarshal(bytes, doc) == MarshalIndent(doc)

\* the bytes handed to fileutil.WriteBytesToFile (lines 221, 423)
BytesToPersist(bytes, doc) == bytes

\* lines 220-223, 422-425
WriteBuildJson ==
    /\ pc = "write"
    /\ \E w \in WriteOutcomes :
         LET r == WriteBytesToFile(fs, BuildConfigPth,
                                   BytesToPersist(buildConfigBytes, buildConfig), w)
         IN  /\ fs' = r.files
             /\ IF r.err
                THEN Fail("Failed to write build.json file, error: %s",
                          <<"write failed">>, <<>>)
                ELSE /\ pc' = "export"
                     /\ UNCHANGED <<failure, exitCode, log>>
    /\ UNCHANGED <<rev, configs, tmpDir, buildConfig, buildConfigBytes,
                   netRequests, downloads, published>>

OutputKey == "BITRISE_CORDOVA_BUILD_CONFIGURATION"

\* exportEnvironmentWithEnvman and the end of main (lines 225-228, 427-430):
\* envman either records the value or fails
ExportEnvironment ==
    /\ pc = "export"
    /\ \E ok \in BOOLEAN :
         IF ok
         THEN /\ published' = Append(published,
                                     [key |-> OutputKey, value |-> BuildConfigPth])
              /\ log' = Append(log,
                     <<"The build.json path is now available in the Environment Variable: ",
                       OutputKey>> \o BuildConfigPth)
              /\ exitCode' = 0
              /\ pc' = "exited"
              /\ UNCHANGED failure
         ELSE /\ Fail("Failed to export BITRISE_CORDOVA_BUILD_CONFIGURATION, error: %s",
                      <<"envman failed">>, <<>>)
              /\ UNCHANGED published
    /\ UNCHANGED <<rev, configs, tmpDir, buildConfig, buildConfigBytes, fs,
                   netRequests, downloads>>

Next ==
    \/ ReadConfigs
    \/ CreateTmpDir
    \/ AndroidBuildConfig
    \/ IOSBuildConfig
    \/ NothingToGenerate
    \/ GenerateConfigFile
    \/ WriteBuildJson
    \/ ExportEnvironment

Spec == Init /\ [][Next]_vars

-----------------------------------------------------------------------------
(* Vocabulary of the properties                                            *)

Key == configs.Configuration
KeystorePassword == configs.KeystorePassword
PrivateKeyPassword == configs.PrivateKeyPassword

ValidInputs ==
    /\ configs.Configuration \in {<<"release">>, <<"debug">>}
    /\ configs.PackageType \in {<<"none">>, <<"development">>, <<"enterprise">>,
                                <<"ad-hoc">>, <<"app-store">>}

Exited == pc = "exited"

InvalidInputFailure ==
    failure \in {"Issue with input: %s", "Couldn't create config: %v"}
TmpDirFailure == failure = "Failed to create tmp dir, error: %s"
PathResolutionFailure == failure = "Failed to expand path (%s), error: %s"
DownloadFailure == failure = "Failed to download keystore, error: %s"
PersistenceFailure == failure = "Failed to write build.json file, error: %s"
PublishFailure ==
    failure = "Failed to export BITRISE_CORDOVA_BUILD_CONFIGURATION, error: %s"

HasAndroid == DOMAIN buildConfig.Android # {}
HasIOS == DOMAIN buildConfig.IOS # {}
BuildJsonExists == TmpDirPath \o <<"/", "build.json">> \in DOMAIN fs
KeystoreJksExists == TmpDirPath \o <<"/", "keystore.jks">> \in DOMAIN fs
BuildJsonBytes == fs[TmpDirPath \o <<"/", "build.json">>]

\* the display step has run: the "content:" line is in the log
Displayed == \E i \in DOMAIN log : log[i] = <<"content:">>

\* fileutil.WriteBytesToFile has returned without an error
WriteSucceeded == pc = "export" \/ published # <<>> \/ PublishFailure

\* the document with the Android passwords as given in the inputs
Unredacted(doc) ==
    [doc EXCEPT !.Android =
        [k \in DOMAIN doc.Android |->
            [doc.Android[k] EXCEPT !.StorePassword = KeystorePassword,
                                   !.Password = PrivateKeyPassword]]]

\* text contains s as a substring (s non-empty)
Contains(text, s) ==
    \E i \in 1..(Len(text) - Len(s) + 1) : SubSeq(text, i, i + Len(s) - 1) = s

Leaks(secret) ==
    secret # <<>> /\ \E i \in DOMAIN log : Contains(log[i], secret)

-----------------------------------------------------------------------------
(* C1 *)

\* C1 (as stated): once the inputs have been read, the run has been rejected
\* with an InvalidInput error and exit status 1 exactly when configuration is
\* not one of {release, debug} or package_type is not one of the five
\* allowed values.
C1_ValidationAcceptsExactlyTheOptions ==
    pc # "start" =>
        /\ ~ValidInputs => (Exited /\ exitCode = 1 /\ InvalidInputFailure)
        /\ ValidInputs => ~InvalidInputFailure

-----------------------------------------------------------------------------
(* C2 *)

EmptyCase == configs.KeystoreURL = <<>> /\ configs.PackageType = <<"none">>

\* C2 (as stated): with keystore_url empty and package_type none, build.json
\* is never written, the handoff is never published and the run ends with
\* exit status 0.
C2_EmptyCaseAlwaysExitsZero ==
    EmptyCase =>
        /\ ~BuildJsonExists
        /\ published = <<>>
        /\ Exited => exitCode = 0

\* C2 (amended): with keystore_url empty and package_type none, build.json
\* is never written and the handoff is never published; the run never gets
\* stuck, and it ends with exit status 0 exactly when the inputs were
\* accepted and the scratch directory was created, else with status 1.
C2_EmptyCaseNoArtifact ==
    EmptyCase =>
        /\ ~BuildJsonExists
        /\ published = <<>>
        /\ Exited \/ ENABLED Next
        /\ Exited => /\ exitCode \in {0, 1}
                     /\ exitCode = 0 <=> (~InvalidInputFailure /\ tmpDir)
                     /\ exitCode = 1 <=> (InvalidInputFailure \/ TmpDirFailure)

C2_Witness ==
    /\ EmptyCase
    /\ Exited
    /\ exitCode = 0
    /\ tmpDir
    /\ fs = <<>>

-----------------------------------------------------------------------------
(* C3 *)

\* C3 (as stated): once the display step has run, no line of the log contains
\* the value of keystore_password or of private_key_password, when non-empty.
C3_LogNeverShowsPasswords ==
    Displayed => (~Leaks(KeystorePassword) /\ ~Leaks(PrivateKeyPassword))

-----------------------------------------------------------------------------
(* C4 *)

\* C4: whenever build.json exists its bytes come from the serialization of
\* the unredacted document: all of it when the write succeeded, a prefix of
\* it otherwise.  With an Android section, storePassword and password hold
\* the keystore_password and private_key_password inputs (and are left out
\* when the input is empty), whatever the display step did to the document.
C4_PersistedBytesUnredacted ==
    BuildJsonExists =>
        LET full == MarshalIndent(Unredacted(buildConfig))
        IN  /\ HasPrefix(full, BuildJsonBytes)
            /\ WriteSucceeded => BuildJsonBytes = full
            /\ (WriteSucceeded /\ HasAndroid) =>
                 /\ IF KeystorePassword # <<>>
                    THEN Contains(BuildJsonBytes,
                                  <<"storePassword", ":", "\"">> \o KeystorePassword \o <<"\"">>)
                    ELSE ~Contains(BuildJsonBytes, <<"storePassword">>)
                 /\ IF PrivateKeyPassword # <<>>
                    THEN Contains(BuildJsonBytes,
                                  <<"password", ":", "\"">> \o PrivateKeyPassword \o <<"\"">>)
                    ELSE ~Contains(BuildJsonBytes, <<"password">>)
                 /\ ~Contains(BuildJsonBytes, <<"*****">>)

\* revision 2 has masked both passwords in the shared document, and the
\* file has been written
C4_Witness ==
    /\ rev = 2
    /\ WriteSucceeded
    /\ BuildJsonExists
    /\ HasAndroid
    /\ KeystorePassword # <<>>
    /\ PrivateKeyPassword # <<>>
    /\ buildConfig.Android[Key].StorePassword = <<"*****">>
    /\ buildConfig.Android[Key].Password = <<"*****">>

-----------------------------------------------------------------------------
(* C5 *)

DownloadWentWrong(o) ==
    o.get = "neterr" \/ o.get = "404" \/ ~o.create \/ ~o.copy

\* C5 (as stated): a download that met a network failure, a non-success
\* HTTP status, or a failure to create or write keystore.jks has ended the
\* run with a DownloadError and exit status 1, with no Android section,
\* no build.json and no handoff.
C5_FailedDownloadEndsRun ==
    \A i \in DOMAIN downloads :
        DownloadWentWrong(downloads[i]) =>
            /\ Exited
            /\ exitCode = 1
            /\ DownloadFailure
            /\ ~HasAndroid
            /\ ~BuildJsonExists
            /\ published = <<>>

-----------------------------------------------------------------------------
(* C6 *)

\* the document was written whole and its path published, and the run
\* reported success
FullSuccess ==
    /\ exitCode = 0
    /\ BuildJsonExists
    /\ BuildJsonBytes = MarshalIndent(Unredacted(buildConfig))
    /\ Len(published) = 1

\* C6 (as stated): a run that has ended either produced, wrote and published
\* the full document, or left nothing behind: no keystore.jks, no build.json
\* and no handoff.
C6_NoPartialSuccess ==
    Exited => \/ FullSuccess
              \/ (~KeystoreJksExists /\ ~BuildJsonExists /\ published = <<>>)

\* C6 (amended): a run that has ended either produced, wrote and published
\* the full document and exited 0, or published no handoff; in the second
\* case it exited non-zero, or it is the nothing-to-generate run, which exits
\* 0 and leaves no file.  Files already written when a later stage fails
\* (keystore.jks, a whole or partial build.json) stay in the scratch
\* directory.
C6_NoPartialHandoff ==
    Exited => \/ FullSuccess
              \/ /\ published = <<>>
                 /\ \/ exitCode = 1 /\ failure # ""
                    \/ exitCode = 0 /\ ~HasAndroid /\ ~HasIOS /\ fs = <<>>

\* the publish failed after a successful write: build.json and the
\* downloaded keystore.jks are left behind, nothing was published
C6_Witness ==
    /\ Exited
    /\ PublishFailure
    /\ exitCode = 1
    /\ BuildJsonExists
    /\ KeystoreJksExists
    /\ published = <<>>

-----------------------------------------------------------------------------
(* C7 *)

\* C7 (as stated): with an invalid configuration or package_type the run
\* ends at validation: the scratch directory is never created, no network
\* request is made, no file is written and no handoff is published.
C7_ValidationPrecedesIO ==
    ~ValidInputs =>
        /\ ~tmpDir
        /\ netRequests = 0
        /\ fs = <<>>
        /\ published = <<>>

-----------------------------------------------------------------------------
(* C8 *)

\* both assembly steps have run
Assembled ==
    \/ pc \in {"check", "write", "export"}
    \/ Exited /\ (PersistenceFailure \/ PublishFailure \/ (exitCode = 0))

\* C8: once the document is assembled, it has an Android section exactly
\* when keystore_url is non-empty and an iOS section exactly when
\* package_type is not none, and each section present has exactly one
\* entry, keyed by the configuration value.
C8_SectionsFollowTriggers ==
    Assembled =>
        /\ DOMAIN buildConfig.Android =
              (IF configs.KeystoreURL # <<>> THEN {configs.Configuration} ELSE {})
        /\ DOMAIN buildConfig.IOS =
              (IF configs.PackageType # <<"none">> THEN {configs.Configuration} ELSE {})

C8_Witness ==
    /\ Assembled
    /\ configs.Configuration = <<"debug">>
    /\ DOMAIN buildConfig.Android = {<<"debug">>}
    /\ DOMAIN buildConfig.IOS = {<<"debug">>}

-----------------------------------------------------------------------------
(* C9 *)

\* C9: the handoff is published at most once; when it is, build.json has
\* been written whole, the published key is
\* BITRISE_CORDOVA_BUILD_CONFIGURATION and the value is the path of that
\* build.json in the scratch directory; a failed export ends the run with
\* exit status 1 and nothing published, and a run that generated a document
\* reports success only with the handoff published.
C9_PublishAfterWrite ==
    /\ Len(published) <= 1
    /\ published # <<>> =>
          /\ published[1].key = "BITRISE_CORDOVA_BUILD_CONFIGURATION"
          /\ published[1].value = TmpDirPath \o <<"/", "build.json">>
          /\ published[1].value \in DOMAIN fs
          /\ fs[published[1].value] = MarshalIndent(Unredacted(buildConfig))
          /\ fs[published[1].value] = buildConfigBytes
    /\ PublishFailure => (Exited /\ exitCode = 1 /\ published = <<>>)
    /\ (Exited /\ exitCode = 0 /\ (HasAndroid \/ HasIOS)) => Len(published) = 1
    /\ pc \in {"start", "tmpdir", "android", "ios", "check", "write", "export"}
          => published = <<>>

C9_Witness ==
    /\ Exited
    /\ exitCode = 0
    /\ Len(published) = 1
    /\ published[1].value \in DOMAIN fs

-----------------------------------------------------------------------------
(* C10 *)

LocalKeystore == HasPrefix(configs.KeystoreURL, <<"file://">>)
Remainder == SubSeq(configs.KeystoreURL, 2, Len(configs.KeystoreURL))

IsAbsoluteFormOf(abs, pth) ==
    /\ abs # <<>>
    /\ abs[1] = "/"
    /\ IF pth[1] = "/"
       THEN abs = pth
       ELSE /\ Len(abs) > Len(pth)
            /\ SubSeq(abs, Len(abs) - Len(pth) + 1, Len(abs)) = pth
            /\ abs[Len(abs) - Len(pth)] = "/"

\* C10: when keystore_url starts with file://, no network request is ever
\* made and no keystore.jks appears in the scratch directory; an Android
\* section, once assembled, has as its keystore the absolute form of what
\* follows the prefix; and when that remainder cannot be resolved (it is
\* empty, or the working directory is unknown) the run ends with the
\* path-resolution failure and exit status 1 before any section is built.
C10_LocalKeystoreNoNetwork ==
    LocalKeystore =>
        /\ netRequests = 0
        /\ downloads = <<>>
        /\ ~KeystoreJksExists
        /\ HasAndroid =>
              /\ Remainder # <<>>
              /\ IsAbsoluteFormOf(buildConfig.Android[Key].Keystore, Remainder)
        /\ PathResolutionFailure =>
              (Exited /\ exitCode = 1 /\ ~HasAndroid /\ ~HasIOS /\ ~BuildJsonExists)
        /\ (Remainder = <<>> /\ pc \notin {"start", "tmpdir", "android"})
              => (Exited /\ exitCode = 1
                    /\ (InvalidInputFailure \/ TmpDirFailure \/ PathResolutionFailure))

\* a relative local path was resolved against the working directory
C10_Witness ==
    /\ configs.KeystoreURL = <<"file://", "rel", "/", "a.jks">>
    /\ HasAndroid
    /\ buildConfig.Android[Key].Keystore = <<"/", "cwd", "/", "rel", "/", "a.jks">>
    /\ Exited
    /\ exitCode = 0

====
